---------------------------- MODULE Spec2Model ----------------------------
(***************************************************************************)
(* A model of the three Airflow DAG files of oer-ega:                      *)
(*                                                                         *)
(*   Spec        assign_gebcoTID_hex: the SQL script that polygonises the  *)
(*               GEBCO TID raster and fills gebco_tid_hex, statement by    *)
(*               statement, run several times on the same raster.         *)
(*   SpecLoader  netcdf_to_pgsql: the chunked execution of the SQL file    *)
(*               written by raster2pgsql.                                  *)
(*   SpecWater   identify_water_hexes and write_waterhexes_to_file: the    *)
(*               thread pool that collects the H3 cells of the water       *)
(*               polygons.                                                 *)
(*                                                                         *)
(* Each specification moves its own variables and leaves the others at     *)
(* the values its Init gives them.                                         *)
(***************************************************************************)
EXTENDS Integers, Sequences, FiniteSets

VARIABLES
    \* ---- assign_gebcoTID_hex ----
    gebco_2024,     \* the polygons ST_DumpAsPolygons yields from the raster, in scan order
    h3_oceans,      \* the optional reference table: [exists, cells]
    db,             \* gebco_2024_polygons, gebco_tid_hex, the SERIAL sequence, the FKs
    snapshot,       \* db when the running script started (the implicit transaction)
    pc,             \* the statement of the script that runs next
    branch,         \* the branch the DO block's IF EXISTS took
    probes,         \* evaluations of the IF EXISTS in the current run
    notin_rows,     \* rows the last INSERT ... WHERE val NOT IN (...) added
    runNo,          \* runs of the task started so far
    history,        \* per finished run: how it ended and the rows of gebco_tid_hex
    \* ---- netcdf_to_pgsql ----
    sql_file,       \* the lines of /mnt/bucket/gebco_2024.sql
    chunk_size,
    chunk,          \* the line numbers buffered in the list chunk
    pos,            \* lines of sql_file read so far
    committed,      \* the lines whose effect is committed, in commit order
    exec_count,     \* per line number: how many cursor.execute calls carried it
    try_number,     \* the attempt of the Airflow task that is running
    lpc,            \* position of netcdf_to_pgsql
    \* ---- identify_water_hexes ----
    gdf,            \* the geometries: [cells, bad]
    futures,        \* per geometry: the state of its future
    hexes,          \* per geometry: the local variable hexes of its worker
    waterhexes,     \* the shared set
    returned,       \* the value identify_water_hexes returned
    csv_file,       \* the rows of water_hexagons.csv
    stdout,         \* the lines printed
    mpc             \* position of the main thread

hexVars == <<gebco_2024, h3_oceans, db, snapshot, pc, branch, probes, notin_rows,
             runNo, history>>
loaderVars == <<sql_file, chunk_size, chunk, pos, committed, exec_count, try_number, lpc>>
waterVars == <<gdf, futures, hexes, waterhexes, returned, csv_file, stdout, mpc>>
vars == <<hexVars, loaderVars, waterVars>>

-----------------------------------------------------------------------------
(* Bounds of the model *)

MaxPolys == 2      \* polygons dumped from the raster
NumCells == 2      \* H3 cells of the modelled region
MaxRuns == 2       \* runs of assign_gebcoTID_hex
MaxLines == 4      \* lines of the SQL file
MaxChunk == 5      \* chunk sizes tried besides the default
NumTexts == 2      \* distinct line texts of the SQL file
MaxGeoms == 3      \* geometries of the GeoDataFrame

Cells == 1..NumCells

\* Classification codes of the raster: one outside the band 10..17, two inside.
Vals == {3, 12, 17}

Min(S) == CHOOSE x \in S : \A y \in S : x <= y

-----------------------------------------------------------------------------
(* assign_gebcoTID_hex: helpers *)

\* WHERE d.val BETWEEN 10 AND 17
BandLo == 10
BandHi == 17
DumpFilterWidened(v) == v <= BandHi
DumpFilter(v) == BandLo <= v /\ v <= BandHi

\* val IN (10, 11, 12, 13, 14, 15, 16, 17)
InList(v) == v \in {10, 11, 12, 13, 14, 15, 16, 17}

\* hex_05 IN (SELECT hex_05 FROM h3_oceans)
InMaskAlways(c) == TRUE
InMask(c) == c \in h3_oceans.cells

\* The tile a dumped polygon comes from: two polygons per raster row.
RidOf(i) == (i + 1) \div 2

\* SELECT hex_05, val, polygon_id
HexRowRid(p, c) == [hex_05 |-> c, val |-> p.rid, polygon_id |-> p.polygon_id]
HexRow(p, c) == [hex_05 |-> c, val |-> p.val, polygon_id |-> p.polygon_id]

\* The rows one INSERT INTO gebco_tid_hex ... SELECT selects: every cell of
\* every polygon of the band asked for, in the mask when the branch has one.
\* polygon_id is unique, so the set has one element per selected row.
Candidates(inBand, masked) ==
    { HexRow(p, c) : <<p, c>> \in
        { pc2 \in db.gebco_2024_polygons.rows \X Cells :
            /\ pc2[2] \in pc2[1].cells
            /\ InList(pc2[1].val) = inBand
            /\ (masked => InMask(pc2[2])) } }

\* The PRIMARY KEY of gebco_tid_hex: no two rows of the statement share
\* hex_05 and none repeats a key of the table.
UniqueViolation(cands) ==
    \/ \E r, s \in cands : r # s /\ r.hex_05 = s.hex_05
    \/ \E r \in cands, s \in db.gebco_tid_hex.rows : r.hex_05 = s.hex_05

EmptyTable == [exists |-> FALSE, rows |-> {}]

EmptyDb == [gebco_2024_polygons |-> EmptyTable,
            gebco_tid_hex |-> EmptyTable,
            polygon_id_seq |-> 1,
            fk_hex_polygons |-> FALSE,
            fk_polygons_gebco |-> FALSE]

Polygon == [val : Vals, cells : SUBSET Cells]

HexInit ==
    /\ gebco_2024 \in UNION { [1..n -> Polygon] : n \in 0..MaxPolys }
    /\ h3_oceans \in {[exists |-> FALSE, cells |-> {}]}
                       \cup { [exists |-> TRUE, cells |-> m] : m \in SUBSET Cells }
    /\ db = EmptyDb
    /\ snapshot = EmptyDb
    /\ pc = "idle"
    /\ branch = "none"
    /\ probes = 0
    /\ notin_rows = 0
    /\ runNo = 0
    /\ history = << >>

\* What a failed statement leaves. The whole script is one string handed to
\* pg_hook.run(sql_statements, autocommit=True): sent as one query it is one
\* implicit transaction and everything is rolled back; split into
\* statements, the ones before the failing one stay. A sequence is not
\* rolled back unless the table that owns it is.
RolledBack ==
    [snapshot EXCEPT !.polygon_id_seq =
        IF snapshot.gebco_2024_polygons.exists THEN db.polygon_id_seq ELSE 1]

Ended(status, d) ==
    /\ pc' = status
    /\ db' = d
    /\ history' = Append(history, [status |-> status, rows |-> d.gebco_tid_hex.rows])

Raise ==
    \E keep \in BOOLEAN : Ended("failed", IF keep THEN db ELSE RolledBack)

\* The PythonOperator calls assign_gebcoTID_hex.
StartRun ==
    /\ pc \in {"idle", "done", "failed"}
    /\ runNo < MaxRuns
    /\ runNo' = runNo + 1
    /\ snapshot' = db
    /\ pc' = "create_polygons"
    /\ branch' = "none"
    /\ probes' = 0
    /\ notin_rows' = 0
    /\ UNCHANGED <<gebco_2024, h3_oceans, db, history>>
    /\ UNCHANGED <<loaderVars, waterVars>>

\* CREATE TABLE IF NOT EXISTS gebco_2024_polygons (polygon_id SERIAL PRIMARY KEY, ...)
CreatePolygons ==
    /\ pc = "create_polygons"
    /\ db' = IF db.gebco_2024_polygons.exists THEN db
             ELSE [db EXCEPT !.gebco_2024_polygons = [exists |-> TRUE, rows |-> {}],
                             !.polygon_id_seq = 1]
    /\ pc' = "truncate_polygons"
    /\ UNCHANGED <<gebco_2024, h3_oceans, snapshot, branch, probes, notin_rows,
                   runNo, history>>
    /\ UNCHANGED <<loaderVars, waterVars>>

\* TRUNCATE gebco_2024_polygons: refused while a foreign key of another table
\* references it; the sequence is not restarted.
TruncatePolygons ==
    /\ pc = "truncate_polygons"
    /\ IF db.fk_hex_polygons
       THEN Raise
       ELSE /\ db' = [db EXCEPT !.gebco_2024_polygons.rows = {}]
            /\ pc' = "insert_polygons"
            /\ UNCHANGED history
    /\ UNCHANGED <<gebco_2024, h3_oceans, snapshot, branch, probes, notin_rows, runNo>>
    /\ UNCHANGED <<loaderVars, waterVars>>

\* The dumped polygons the WHERE keeps, and the rows they become: polygon_id
\* is drawn from the sequence in scan order.
Kept == { i \in DOMAIN gebco_2024 : DumpFilter(gebco_2024[i].val) }

PolygonRow(i) ==
    [polygon_id |-> db.polygon_id_seq + Cardinality({ j \in Kept : j < i }),
     rid |-> RidOf(i),
     val |-> gebco_2024[i].val,
     cells |-> gebco_2024[i].cells]

\* INSERT INTO gebco_2024_polygons (rid, polygon, val) SELECT ... WHERE d.val BETWEEN 10 AND 17
InsertPolygons ==
    /\ pc = "insert_polygons"
    /\ db' = [db EXCEPT !.gebco_2024_polygons.rows = @ \cup { PolygonRow(i) : i \in Kept },
                        !.polygon_id_seq = @ + Cardinality(Kept)]
    /\ pc' = "create_hex"
    /\ UNCHANGED <<gebco_2024, h3_oceans, snapshot, branch, probes, notin_rows,
                   runNo, history>>
    /\ UNCHANGED <<loaderVars, waterVars>>

\* CREATE EXTENSION IF NOT EXISTS h3, h3_postgis;
\* CREATE TABLE IF NOT EXISTS gebco_tid_hex (hex_05 H3INDEX PRIMARY KEY, val INT, polygon_id INT)
CreateHex ==
    /\ pc = "create_hex"
    /\ db' = IF db.gebco_tid_hex.exists THEN db
             ELSE [db EXCEPT !.gebco_tid_hex = [exists |-> TRUE, rows |-> {}]]
    /\ pc' = "truncate_hex"
    /\ UNCHANGED <<gebco_2024, h3_oceans, snapshot, branch, probes, notin_rows,
                   runNo, history>>
    /\ UNCHANGED <<loaderVars, waterVars>>

\* TRUNCATE gebco_tid_hex
TruncateHex ==
    /\ pc = "truncate_hex"
    /\ db' = [db EXCEPT !.gebco_tid_hex.rows = {}]
    /\ pc' = "probe"
    /\ UNCHANGED <<gebco_2024, h3_oceans, snapshot, branch, probes, notin_rows,
                   runNo, history>>
    /\ UNCHANGED <<loaderVars, waterVars>>

\* IF EXISTS (SELECT 1 FROM information_schema.tables WHERE table_name = 'h3_oceans')
Probe ==
    /\ pc = "probe"
    /\ branch' = IF h3_oceans.exists THEN "masked" ELSE "unmasked"
    /\ probes' = probes + 1
    /\ pc' = "insert_in"
    /\ UNCHANGED <<gebco_2024, h3_oceans, db, snapshot, notin_rows, runNo, history>>
    /\ UNCHANGED <<loaderVars, waterVars>>

\* One INSERT INTO gebco_tid_hex ... SELECT of the branch taken: all of its
\* rows, or none and an error when the primary key is violated.
InsertHex(inBand, next) ==
    LET cands == Candidates(inBand, branch = "masked") IN
    IF UniqueViolation(cands)
    THEN Raise /\ UNCHANGED notin_rows
    ELSE /\ db' = [db EXCEPT !.gebco_tid_hex.rows = @ \cup cands]
         /\ notin_rows' = IF inBand THEN notin_rows ELSE Cardinality(cands)
         /\ pc' = next
         /\ UNCHANGED history

\* ... WHERE val IN (10, ..., 17) [AND hex_05 IN (SELECT hex_05 FROM h3_oceans)]
InsertIn ==
    /\ pc = "insert_in"
    /\ InsertHex(TRUE, "insert_notin")
    /\ UNCHANGED <<gebco_2024, h3_oceans, snapshot, branch, probes, runNo>>
    /\ UNCHANGED <<loaderVars, waterVars>>

\* ... WHERE val NOT IN (10, ..., 17) [AND hex_05 IN (SELECT hex_05 FROM h3_oceans)]
InsertNotIn ==
    /\ pc = "insert_notin"
    /\ InsertHex(FALSE, "fk_hex")
    /\ UNCHANGED <<gebco_2024, h3_oceans, snapshot, branch, probes, runNo>>
    /\ UNCHANGED <<loaderVars, waterVars>>

\* ALTER TABLE gebco_tid_hex ADD FOREIGN KEY (polygon_id) REFERENCES gebco_2024_polygons:
\* the rows of the table are validated against it.
AddFkHex ==
    /\ pc = "fk_hex"
    /\ IF \A r \in db.gebco_tid_hex.rows :
            \E p \in db.gebco_2024_polygons.rows : p.polygon_id = r.polygon_id
       THEN /\ db' = [db EXCEPT !.fk_hex_polygons = TRUE]
            /\ pc' = "fk_polygons"
            /\ UNCHANGED history
       ELSE Raise
    /\ UNCHANGED <<gebco_2024, h3_oceans, snapshot, branch, probes, notin_rows, runNo>>
    /\ UNCHANGED <<loaderVars, waterVars>>

\* ALTER TABLE gebco_2024_polygons ADD FOREIGN KEY (rid) REFERENCES gebco_2024 (rid):
\* every rid comes from a row of gebco_2024. The script is over.
AddFkPolygons ==
    /\ pc = "fk_polygons"
    /\ Ended("done", [db EXCEPT !.fk_polygons_gebco = TRUE])
    /\ UNCHANGED <<gebco_2024, h3_oceans, snapshot, branch, probes, notin_rows, runNo>>
    /\ UNCHANGED <<loaderVars, waterVars>>

LoaderIdle ==
    /\ sql_file = << >>
    /\ chunk_size = 1
    /\ chunk = << >>
    /\ pos = 0
    /\ committed = << >>
    /\ exec_count = << >>
    /\ try_number = 1
    /\ lpc = "idle"

WaterIdle ==
    /\ gdf = << >>
    /\ futures = << >>
    /\ hexes = << >>
    /\ waterhexes = {}
    /\ returned = {}
    /\ csv_file = << >>
    /\ stdout = << >>
    /\ mpc = "idle"

Init == HexInit /\ LoaderIdle /\ WaterIdle

Next ==
    \/ StartRun
    \/ CreatePolygons
    \/ TruncatePolygons
    \/ InsertPolygons
    \/ CreateHex
    \/ TruncateHex
    \/ Probe
    \/ InsertIn
    \/ InsertNotIn
    \/ AddFkHex
    \/ AddFkPolygons

Spec == Init /\ [][Next]_vars

-----------------------------------------------------------------------------
(* assign_gebcoTID_hex: properties *)

RunEnded == pc \in {"done", "failed"}
Rows == db.gebco_tid_hex.rows
HexCells == { r.hex_05 : r \in Rows }
Notable(v) == v \in 10..17
PassesMask(c) == h3_oceans.exists => c \in h3_oceans.cells

\* The cells enumerated from the polygons of the band the raster holds.
InputCells ==
    UNION { gebco_2024[i].cells : i \in { j \in DOMAIN gebco_2024 : Notable(gebco_2024[j].val) } }

\* Two polygons of the band share a cell that passes the filter of the run.
InputOverlap ==
    \E i, j \in DOMAIN gebco_2024 :
        /\ i < j
        /\ Notable(gebco_2024[i].val) /\ Notable(gebco_2024[j].val)
        /\ \E c \in gebco_2024[i].cells \cap gebco_2024[j].cells : PassesMask(c)

\* C1: a first run over any polygons, overlapping ones included, completes
\* and leaves exactly one row per distinct enumerated cell (of the mask, when
\* there is one).
C1_OneRowPerCell ==
    (runNo = 1 /\ RunEnded) =>
        /\ pc = "done"
        /\ HexCells = { c \in InputCells : PassesMask(c) }
        /\ Cardinality(Rows) = Cardinality(HexCells)

\* A cell that a polygon of the band and a polygon outside it both cover.
MixedCell(c) ==
    \E i, j \in DOMAIN gebco_2024 :
        /\ Notable(gebco_2024[i].val) /\ ~Notable(gebco_2024[j].val)
        /\ c \in gebco_2024[i].cells \cap gebco_2024[j].cells

\* C2: once a run is over, a row of a cell covered from inside and from
\* outside the band 10..17 carries the value of a polygon of the band that
\* covers the cell, in whatever order the polygons were dumped; and a run
\* that completed has that row when the cell passes the mask.
C2_NotableWins ==
    RunEnded =>
        \A c \in Cells : MixedCell(c) =>
            /\ \A r \in Rows : r.hex_05 = c =>
                    /\ Notable(r.val)
                    /\ \E i \in DOMAIN gebco_2024 :
                            /\ c \in gebco_2024[i].cells
                            /\ gebco_2024[i].val = r.val
            /\ (pc = "done" /\ PassesMask(c)) => \E r \in Rows : r.hex_05 = c

\* A completed run whose raster dumps a polygon outside the band before a
\* polygon of value 12 over the same cell, and the row of that cell.
C2_Witness ==
    /\ pc = "done"
    /\ \E i, j \in DOMAIN gebco_2024 :
        /\ i < j
        /\ gebco_2024[i].val = 3 /\ gebco_2024[j].val = 12
        /\ \E r \in Rows : r.hex_05 \in gebco_2024[i].cells \cap gebco_2024[j].cells
                           /\ r.val = 12

\* C3: when two polygons of one band cover a cell that passes the mask, a
\* first run leaves a row for the cell, and it names the lowest polygon_id
\* among the polygons of that band that cover it.
C3_LowerPolygonIdWins ==
    (runNo = 1 /\ RunEnded) =>
        \A c \in Cells :
            (\E i, j \in DOMAIN gebco_2024 :
                /\ i < j
                /\ Notable(gebco_2024[i].val) = Notable(gebco_2024[j].val)
                /\ c \in gebco_2024[i].cells \cap gebco_2024[j].cells
                /\ PassesMask(c))
            => \E r \in Rows :
                /\ r.hex_05 = c
                /\ \A p \in db.gebco_2024_polygons.rows :
                       (c \in p.cells /\ Notable(p.val) = Notable(r.val))
                           => r.polygon_id <= p.polygon_id

\* C4: a completed run leaves exactly the enumerated cells of the mask when
\* h3_oceans exists and exactly the enumerated cells when it does not; the
\* existence of h3_oceans is probed once a run and both inserts use the
\* branch the probe chose; a run without the mask fails only for a reason
\* that has nothing to do with the mask (a duplicate key, a refused TRUNCATE).
C4_MaskFilter ==
    /\ pc = "done" => HexCells = { c \in InputCells : PassesMask(c) }
    /\ probes <= 1
    /\ pc \in {"insert_in", "insert_notin", "fk_hex", "fk_polygons", "done"} =>
          /\ probes = 1
          /\ branch = IF h3_oceans.exists THEN "masked" ELSE "unmasked"
    /\ (pc = "failed" /\ ~h3_oceans.exists) => (InputOverlap \/ snapshot.fk_hex_polygons)

\* A completed run with a mask that let some enumerated cells through and
\* kept others out.
C4_Witness ==
    /\ pc = "done"
    /\ h3_oceans.exists
    /\ HexCells # {}
    /\ InputCells \ HexCells # {}

\* C7: when a run completed, the next run over the same raster completes
\* too and leaves the same rows in gebco_tid_hex.
C7_SecondRunSame ==
    (Len(history) >= 2 /\ history[1].status = "done") =>
        /\ history[2].status = "done"
        /\ history[2].rows = history[1].rows

\* C10: once a run is over, every row of gebco_2024_polygons and of
\* gebco_tid_hex has val in 10..17, every polygon_id of gebco_tid_hex is the
\* polygon_id of a row of gebco_2024_polygons, and the INSERT that selects
\* val NOT IN (10..17) has added no row, with or without the mask.
C10_BandOnly ==
    /\ notin_rows = 0
    /\ RunEnded =>
        /\ \A p \in db.gebco_2024_polygons.rows : p.val \in 10..17
        /\ \A r \in Rows :
            /\ r.val \in 10..17
            /\ \E p \in db.gebco_2024_polygons.rows :
                   p.polygon_id = r.polygon_id /\ p.val = r.val /\ r.hex_05 \in p.cells

\* A completed run, with the mask, over a raster that has a polygon outside
\* the band on a cell of the mask, and rows in gebco_tid_hex.
C10_Witness ==
    /\ pc = "done"
    /\ branch = "masked"
    /\ Rows # {}
    /\ \E i \in DOMAIN gebco_2024 :
          gebco_2024[i].val = 3 /\ gebco_2024[i].cells \cap h3_oceans.cells # {}

-----------------------------------------------------------------------------
(* netcdf_to_pgsql *)

\* chunk_size=1000 by default; the DAG passes none
DefaultChunkSize == 1000
ChunkSizes == 1..MaxChunk \cup {DefaultChunkSize}

\* default_args: 'retries': 0
Retries == 0

\* if len(chunk) >= chunk_size
ChunkFull(c) == Len(c) >= chunk_size

\* if chunk:
HasRemainderNever(c) == FALSE
HasRemainder(c) == c # << >>

\* chunk = []  # Reset chunk
KeepChunk == chunk
ResetChunk == << >>

\* The line numbers of the lines buffered in c once p lines are read.
ChunkLines(c, p) == (p - Len(c) + 1)..p

LoaderInit ==
    /\ sql_file \in UNION { [1..n -> 1..NumTexts] : n \in 0..MaxLines }
    /\ chunk_size \in ChunkSizes
    /\ chunk = << >>
    /\ pos = 0
    /\ committed = << >>
    /\ exec_count = [i \in DOMAIN sql_file |-> 0]
    /\ try_number = 1
    /\ lpc = "start"

\* except Exception as e: logging.error(...); raise, after finally has closed
\* the cursor and the connection: what was executed and not committed is
\* gone, what was committed stays. Airflow runs the task again only while
\* try_number <= retries.
LoaderRaise ==
    IF try_number <= Retries
    THEN /\ try_number' = try_number + 1
         /\ lpc' = "start"
    ELSE /\ try_number' = try_number
         /\ lpc' = "failed"

\* raster2pgsql writes the SQL file; DROP TABLE IF EXISTS gebco_2024 CASCADE
\* runs with autocommit; the connection and the cursor are opened.
Prologue ==
    /\ lpc = "start"
    /\ \E ok \in BOOLEAN :
        IF ok
        THEN /\ committed' = << >>
             /\ chunk' = << >>
             /\ pos' = 0
             /\ lpc' = "loop"
             /\ UNCHANGED try_number
        ELSE /\ LoaderRaise
             /\ UNCHANGED <<committed, chunk, pos>>
    /\ UNCHANGED <<sql_file, chunk_size, exec_count>>
    /\ UNCHANGED <<hexVars, waterVars>>

\* cursor.execute(''.join(c)); conn.commit(): the lines of c take effect in
\* order and are committed together, or one of the two calls raises and
\* none of them is.
ExecuteAndCommit(c, p, next) ==
    /\ exec_count' = [i \in DOMAIN exec_count |->
                        IF i \in ChunkLines(c, p) THEN exec_count[i] + 1 ELSE exec_count[i]]
    /\ \E outcome \in {"ok", "execute_raises", "commit_raises"} :
        IF outcome = "ok"
        THEN /\ committed' = committed \o c
             /\ chunk' = ResetChunk
             /\ lpc' = next
             /\ UNCHANGED try_number
        ELSE /\ LoaderRaise
             /\ chunk' = c
             /\ UNCHANGED committed

\* One turn of for line in sql_file: the line is appended, and a full chunk
\* is executed, committed and reset.
ReadLine ==
    /\ lpc = "loop"
    /\ pos < Len(sql_file)
    /\ pos' = pos + 1
    /\ LET c == Append(chunk, sql_file[pos + 1]) IN
        IF ChunkFull(c)
        THEN ExecuteAndCommit(c, pos + 1, "loop")
        ELSE /\ chunk' = c
             /\ UNCHANGED <<committed, exec_count, try_number, lpc>>
    /\ UNCHANGED <<sql_file, chunk_size>>
    /\ UNCHANGED <<hexVars, waterVars>>

\* After the loop: the remaining lines are executed as the final chunk, the
\* cursor and the connection are closed and the two files removed.
FinalChunk ==
    /\ lpc = "loop"
    /\ pos = Len(sql_file)
    /\ IF HasRemainder(chunk)
       THEN ExecuteAndCommit(chunk, pos, "done")
       ELSE /\ lpc' = "done"
            /\ UNCHANGED <<chunk, committed, exec_count, try_number>>
    /\ UNCHANGED <<sql_file, chunk_size, pos>>
    /\ UNCHANGED <<hexVars, waterVars>>

HexIdle ==
    /\ gebco_2024 = << >>
    /\ h3_oceans = [exists |-> FALSE, cells |-> {}]
    /\ db = EmptyDb
    /\ snapshot = EmptyDb
    /\ pc = "idle"
    /\ branch = "none"
    /\ probes = 0
    /\ notin_rows = 0
    /\ runNo = 0
    /\ history = << >>

InitLoader == HexIdle /\ LoaderInit /\ WaterIdle

NextLoader ==
    \/ Prologue
    \/ ReadLine
    \/ FinalChunk

SpecLoader == InitLoader /\ [][NextLoader]_vars

\* C5: a run that met no failure has executed and committed every line of
\* the file exactly once, in file order, whatever the chunk size: 1, the
\* default 1000, a size that leaves a trailing partial chunk.
C5_ChunkInvariance ==
    lpc = "done" =>
        /\ committed = sql_file
        /\ \A i \in DOMAIN sql_file : exec_count[i] = 1
        /\ chunk = << >>

\* A finished load whose last chunk was a partial one, after a full one.
C5_Witness ==
    /\ lpc = "done"
    /\ chunk_size > 1
    /\ Len(sql_file) > chunk_size
    /\ Len(sql_file) % chunk_size # 0
    /\ committed = sql_file

\* The run ended in an error raised while a chunk was executed or committed.
ChunkFailed == lpc = "failed" /\ chunk # << >>

\* C6 as stated: a chunk that fails is tried again before the run ends in
\* an error; the chunks committed before it stay committed and none of
\* their lines is executed again.
C6_RetriedBeforeFatal ==
    ChunkFailed =>
        /\ \A i \in ChunkLines(chunk, pos) : exec_count[i] >= 2
        /\ committed = SubSeq(sql_file, 1, pos - Len(chunk))
        /\ \A i \in 1..(pos - Len(chunk)) : exec_count[i] = 1

\* C6 as the code has it: a chunk that fails is not tried again. The run
\* ends in an error with every line of the failing chunk executed once, the
\* chunks before it committed and executed once, and the lines after it
\* never executed; the task itself is attempted once.
C6_FailFast ==
    ChunkFailed =>
        /\ try_number = 1
        /\ \A i \in ChunkLines(chunk, pos) : exec_count[i] = 1
        /\ committed = SubSeq(sql_file, 1, pos - Len(chunk))
        /\ \A i \in 1..(pos - Len(chunk)) : exec_count[i] = 1
        /\ \A i \in (pos + 1)..Len(sql_file) : exec_count[i] = 0

\* A run that failed in its second chunk, the first one committed.
C6_Witness ==
    /\ ChunkFailed
    /\ committed # << >>
    /\ Len(committed) = pos - Len(chunk)

-----------------------------------------------------------------------------
(* identify_water_hexes, write_waterhexes_to_file *)

\* A geometry: the cells h3.geo_to_cells(geojson, 5) returns for it, or bad
\* when the call raises.
Geometry == { [cells |-> c, bad |-> FALSE] : c \in SUBSET Cells }
                \cup {[cells |-> {}, bad |-> TRUE]}

WaterInit ==
    /\ gdf \in UNION { [1..n -> Geometry] : n \in 0..MaxGeoms }
    /\ futures = [i \in DOMAIN gdf |-> "unsubmitted"]
    /\ hexes = [i \in DOMAIN gdf |-> {}]
    /\ waterhexes = {}
    /\ returned = {}
    /\ csv_file = << >>
    /\ stdout = << >>
    /\ mpc = "submit"

Unsubmitted == { i \in DOMAIN gdf : futures[i] = "unsubmitted" }

\* executor.submit(process_geometry_with_progress, geom), one geometry after
\* the other while the workers already run. ThreadPoolExecutor() has at
\* least five threads, more than the geometries modelled: a submitted task
\* never waits for a thread.
Submit ==
    /\ mpc = "submit"
    /\ Unsubmitted # {}
    /\ futures' = [futures EXCEPT ![Min(Unsubmitted)] = "pending"]
    /\ UNCHANGED <<gdf, hexes, waterhexes, returned, csv_file, stdout, mpc>>
    /\ UNCHANGED <<hexVars, loaderVars>>

\* The dict of futures is complete: concurrent.futures.wait(futures) is called.
Submitted ==
    /\ mpc = "submit"
    /\ Unsubmitted = {}
    /\ mpc' = "wait"
    /\ UNCHANGED <<gdf, futures, hexes, waterhexes, returned, csv_file, stdout>>
    /\ UNCHANGED <<hexVars, loaderVars>>

\* hexes = process_geometry(geom) in a worker: the cells, or an exception
\* that ends the task and is kept in its future.
Process(i) ==
    /\ futures[i] = "pending"
    /\ IF gdf[i].bad
       THEN /\ futures' = [futures EXCEPT ![i] = "raised"]
            /\ UNCHANGED hexes
       ELSE /\ futures' = [futures EXCEPT ![i] = "computed"]
            /\ hexes' = [hexes EXCEPT ![i] = gdf[i].cells]
    /\ UNCHANGED <<gdf, waterhexes, returned, csv_file, stdout, mpc>>
    /\ UNCHANGED <<hexVars, loaderVars>>

\* waterhexes.update(hexes) in the same worker: one call on the set shared
\* by all workers.
Update(i) ==
    /\ futures[i] = "computed"
    /\ waterhexes' = waterhexes \cup hexes[i]
    /\ futures' = [futures EXCEPT ![i] = "finished"]
    /\ UNCHANGED <<gdf, hexes, returned, csv_file, stdout, mpc>>
    /\ UNCHANGED <<hexVars, loaderVars>>

\* return_when=ALL_COMPLETED: every future has a result or an exception.
FirstCompleted ==
    \/ futures = << >>
    \/ \E i \in DOMAIN futures : futures[i] \in {"finished", "raised"}
AllCompleted == \A i \in DOMAIN futures : futures[i] \in {"finished", "raised"}

\* concurrent.futures.wait(futures) returns, the with block shuts the
\* executor down, and return waterhexes. No future is asked for its result
\* or its exception.
WaitAndReturn ==
    /\ mpc = "wait"
    /\ AllCompleted
    /\ returned' = waterhexes
    /\ mpc' = "returned"
    /\ UNCHANGED <<gdf, futures, hexes, waterhexes, csv_file, stdout>>
    /\ UNCHANGED <<hexVars, loaderVars>>

\* The orders in which a for loop may visit the set S.
Orders(S) == { s \in [1..Cardinality(S) -> S] : \A i, j \in DOMAIN s : s[i] = s[j] => i = j }

\* write_waterhexes_to_file(waterhexes, "water_hexagons.csv"): the header,
\* one row per cell in the order the set yields them, and one printed line.
WriteFile ==
    /\ mpc = "returned"
    /\ \E rows \in Orders(returned) : csv_file' = <<"H3_Index">> \o rows
    /\ stdout' = Append(stdout, [msg |-> "Water hexagons saved to", arg |-> "water_hexagons.csv"])
    /\ mpc' = "written"
    /\ UNCHANGED <<gdf, futures, hexes, waterhexes, returned>>
    /\ UNCHANGED <<hexVars, loaderVars>>

InitWater == HexIdle /\ LoaderIdle /\ WaterInit

NextWater ==
    \/ Submit
    \/ Submitted
    \/ \E i \in DOMAIN gdf : Process(i)
    \/ \E i \in DOMAIN gdf : Update(i)
    \/ WaitAndReturn
    \/ WriteFile

SpecWater == InitWater /\ [][NextWater]_vars

Skipped == { i \in DOMAIN gdf : futures[i] = "raised" }
HasReturned == mpc \in {"returned", "written"}

\* C8: when the enumeration of geometries failed, the run completes with
\* the cells of all the other geometries and has reported a skip count equal
\* to the number of geometries skipped.
C8_SkipCountReported ==
    (HasReturned /\ Skipped # {}) =>
        /\ \A i \in DOMAIN gdf : ~gdf[i].bad => gdf[i].cells \subseteq returned
        /\ \E k \in DOMAIN stdout :
              stdout[k].msg = "skipped" /\ stdout[k].arg = Cardinality(Skipped)

\* C9 as the code has it: identify_water_hexes returns only when every
\* submitted task has finished or raised, and what it returns is the union
\* of the cells of the geometries whose enumeration did not raise.
C9_ReturnsUnion ==
    HasReturned =>
        /\ \A i \in DOMAIN gdf : futures[i] \in {"finished", "raised"}
        /\ returned = UNION { gdf[i].cells : i \in { j \in DOMAIN gdf : ~gdf[j].bad } }

\* Two geometries with different cells, both in what was returned.
C9_Witness ==
    /\ mpc = "returned"
    /\ \E i, j \in DOMAIN gdf :
          /\ gdf[i].cells \ gdf[j].cells # {}
          /\ gdf[j].cells \ gdf[i].cells # {}
          /\ gdf[i].cells \cup gdf[j].cells \subseteq returned

\* C9 as stated, its last part: the shared set is changed by the main
\* thread's reduction, never by a worker while another worker is between
\* computing its cells and merging them.
C9_SingleThreadedReduction ==
    [][ (waterhexes' # waterhexes) =>
            (mpc' # mpc \/ ~ \E j \in DOMAIN futures : futures'[j] = "computed") ]_vars

=============================================================================
